---- MODULE Spec2Model ----
(***************************************************************************)
(* Model of the trading decision pipeline (run_hedge_fund: producers ->    *)
(* risk -> portfolio management -> execution) and of the autonomous        *)
(* scheduler (TradingScheduler) of agentic-hedge-fund.                     *)
(***************************************************************************)
EXTENDS Integers, Sequences, FiniteSets, TLC

(***************************************************************************)
(* Bounds of the model.                                                    *)
(***************************************************************************)
\* Largest quantity the decision generator asks for (it may also ask -1, 0).
MaxRequested == 3
\* Largest remaining position limit the risk data carries.
MaxLimit == 2
\* Most failures injected into one run (producer, risk data, broker).
MaxFaults == 2

(***************************************************************************)
(* The run's inputs.                                                       *)
(***************************************************************************)
\* data["tickers"]: the requested instruments, in request order.
tickers == <<"AAPL", "MSFT">>

Tickers == {tickers[i] : i \in 1..Len(tickers)}

\* An instrument nobody requested, which the decision generator may name.
Unrequested == "TSLA"

\* The analysts wired between start and risk_management.
Producers == {"fundamentals_agent", "sentiment_agent"}

\* dict.get(key, default)
Get(d, k, default) == IF k \in DOMAIN d THEN d[k] ELSE default

\* {**a, **b}
Merge(a, b) == [k \in DOMAIN a \cup DOMAIN b |-> IF k \in DOMAIN b THEN b[k] ELSE a[k]]

EmptyDict == [k \in {} |-> 0]

\* str(e) of an exception raised by a collaborator.
ExceptionText == "exception"

(***************************************************************************)
(* State.                                                                  *)
(***************************************************************************)
VARIABLES
    stage,               \* position of run_hedge_fund
    finished,            \* producers whose node has returned
    met,                 \* what each producer met for each ticker
    node_met,            \* what each producer's node met outside its loop
    messages,            \* state["messages"]
    analyst_signals,     \* state["data"]["analyst_signals"]
    formatted_signals,   \* what make_decision sent to the decision generator
    llm_response,        \* what the decision generator answered
    portfolio_decisions, \* state["data"]["portfolio_decisions"]
    connected,           \* TradingExecutor.connected
    broker_calls,        \* calls made on the broker, in order
    execution_results,   \* state["data"]["execution_results"]
    portfolio,           \* state["data"]["portfolio"]
    result,              \* what run_hedge_fund returned
    faults,              \* failures injected so far
    trading_hours_only,  \* TradingScheduler.trading_hours_only
    scheduler_state,     \* the BackgroundScheduler: "stopped" or "running"
    jobs,                \* ids of the jobs added to the scheduler
    start_call,          \* the start(interval_minutes) call made, if any
    instance,            \* per job, its running instance and its last tick
    market_open,         \* is_market_open() at this moment
    now,                 \* the New York wall clock: day of week and minute of day
    next_window,         \* the next window a gated-off tick recorded
    credentials,         \* ALPACA_API_KEY and ALPACA_API_SECRET are both set
    last_status,         \* the scheduler's last recorded status
    ticks                \* ticks fired so far

pipeVars == <<stage, finished, met, node_met, messages, analyst_signals, formatted_signals,
              llm_response, portfolio_decisions, connected, broker_calls,
              execution_results, portfolio, result, faults>>

schedVars == <<trading_hours_only, scheduler_state, jobs, start_call, instance,
               market_open, now, next_window, credentials, last_status, ticks>>

vars == <<pipeVars, schedVars>>

(***************************************************************************)
(* Messages: a name and a content, which is JSON (a dict) or plain text.   *)
(***************************************************************************)
TextMessage(name) == [name |-> name, json |-> FALSE, content |-> EmptyDict]

JsonMessage(name, content) == [name |-> name, json |-> TRUE, content |-> content]

(***************************************************************************)
(* Producers.                                                              *)
(***************************************************************************)
\* What one producer can meet for one ticker.
FundamentalsOutcomes == {"ok", "fetch_raises", "empty", "scoring_raises"}

SentimentOutcomes == {"ok", "insider_raises", "news_raises"}

Failures(outcome) == Cardinality({t \in DOMAIN outcome : outcome[t] # "ok"})

\* What a producer's node can meet outside its loop over the tickers, between
\* the loop and its return: nothing, or an exception (json.dumps or
\* show_agent_reasoning raises) that its top-level handler catches.
NodeOutcomes == {"ok", "node_raises"}

NodeFailures(node) == IF node = "ok" THEN 0 ELSE 1

\* {"signal": "neutral", "confidence": 0, "error": ...}
ErrorSignal(msg) == [signal |-> "neutral", confidence |-> 0, error |-> msg]

\* fundamentals_agent's entry for one ticker: the body of its loop.
FundamentalsEntry(o) ==
    CASE o = "fetch_raises" -> ErrorSignal(ExceptionText)
      [] o = "empty" -> ErrorSignal("No financial metrics found")
      [] o = "scoring_raises" -> ErrorSignal(ExceptionText)
      [] OTHER -> [signal |-> "bullish", confidence |-> 100, reasoning |-> <<"scores">>]

\* sentiment_agent's entry for one ticker: the body of its loop.
SentimentEntry(o) ==
    CASE o = "insider_raises" -> ErrorSignal(ExceptionText)
      [] o = "news_raises" -> ErrorSignal(ExceptionText)
      [] OTHER -> [signal |-> "bearish", confidence |-> 40,
                   insider_trades |-> 1, news_count |-> 1]

\* Positions of the tickers a loop reaches when the first failure ends it.
ReachedUntilFailure(outcome) ==
    {tickers[i] : i \in {j \in 1..Len(tickers) :
                            \A k \in 1..j : outcome[tickers[k]] = "ok"}}

\* A loop that lets the first failing ticker end it: no entry for that ticker
\* nor for those after it.
fundamental_analysis_aborting(outcome) ==
    [t \in ReachedUntilFailure(outcome) |-> FundamentalsEntry(outcome[t])]

\* fundamentals_agent: for ticker in tickers: try ... except, one entry each.
fundamental_analysis(outcome) ==
    [t \in Tickers |-> FundamentalsEntry(outcome[t])]

\* sentiment_agent: for ticker in tickers: try ... except, one entry each.
sentiment_analysis(outcome) ==
    [t \in Tickers |-> SentimentEntry(outcome[t])]

\* The producers in the order create_workflow wires them, with the name each
\* gives its message.
ProducerOrder == <<"fundamentals_agent", "sentiment_agent">>

MessageName(agent) ==
    CASE agent = "fundamentals_agent" -> "fundamentals"
      [] agent = "sentiment_agent" -> "sentiment"
      [] OTHER -> agent

RECURSIVE ProducerMessages(_, _, _)
ProducerMessages(signals, done, i) ==
    IF i > Len(ProducerOrder) THEN <<>>
    ELSE (IF ProducerOrder[i] \in done /\ ProducerOrder[i] \in DOMAIN signals
          THEN <<JsonMessage(MessageName(ProducerOrder[i]), signals[ProducerOrder[i]])>>
          ELSE <<>>)
         \o ProducerMessages(signals, done, i + 1)

\* A producer's return value folded into the run state: its analysis stored
\* under its own name beside the other producers' entries, its message
\* appended, the messages of one fan-out kept in wiring order.
ProducerReturns(agent, analysis) ==
    /\ analyst_signals' = Merge(analyst_signals, (agent :> analysis))
    /\ messages' = <<messages[1]>>
                   \o ProducerMessages(analyst_signals', finished \cup {agent}, 1)

\* The top-level handler of a producer: return {"messages": state["messages"],
\* "data": state["data"]}, the state as it was, without the producer's entry.
ProducerReturnsUnchanged ==
    /\ analyst_signals' = analyst_signals
    /\ messages' = messages

\* A later node's return value folded into the run state.
NodeReturns(agent, name, analysis) ==
    /\ messages' = Append(messages, JsonMessage(name, analysis))
    /\ analyst_signals' = Merge(analyst_signals, (agent :> analysis))

fundamentals_agent ==
    /\ stage = "producers"
    /\ "fundamentals_agent" \notin finished
    /\ \E outcome \in [Tickers -> FundamentalsOutcomes], node \in NodeOutcomes :
        /\ faults + Failures(outcome) + NodeFailures(node) <= MaxFaults
        /\ faults' = faults + Failures(outcome) + NodeFailures(node)
        /\ IF node = "ok"
           THEN ProducerReturns("fundamentals_agent", fundamental_analysis(outcome))
           ELSE ProducerReturnsUnchanged
        /\ met' = Merge(met, ("fundamentals_agent" :> outcome))
        /\ node_met' = Merge(node_met, ("fundamentals_agent" :> node))
    /\ finished' = finished \cup {"fundamentals_agent"}
    /\ UNCHANGED <<stage, formatted_signals, llm_response, portfolio_decisions,
                   connected, broker_calls, execution_results, portfolio, result, schedVars>>

sentiment_agent ==
    /\ stage = "producers"
    /\ "sentiment_agent" \notin finished
    /\ \E outcome \in [Tickers -> SentimentOutcomes], node \in NodeOutcomes :
        /\ faults + Failures(outcome) + NodeFailures(node) <= MaxFaults
        /\ faults' = faults + Failures(outcome) + NodeFailures(node)
        /\ IF node = "ok"
           THEN ProducerReturns("sentiment_agent", sentiment_analysis(outcome))
           ELSE ProducerReturnsUnchanged
        /\ met' = Merge(met, ("sentiment_agent" :> outcome))
        /\ node_met' = Merge(node_met, ("sentiment_agent" :> node))
    /\ finished' = finished \cup {"sentiment_agent"}
    /\ UNCHANGED <<stage, formatted_signals, llm_response, portfolio_decisions,
                   connected, broker_calls, execution_results, portfolio, result, schedVars>>

(***************************************************************************)
(* Risk manager: the node between the producers and portfolio management.  *)
(***************************************************************************)
\* What the risk manager can deliver for one ticker: no entry, an entry
\* lacking the limit or the price, a price of zero or below, or usable data.
RiskChoices ==
    {[kind |-> k, limit |-> MaxLimit, price |-> 1] :
        k \in {"absent", "no_limit", "no_price"}}
    \cup {[kind |-> "bad_price", limit |-> MaxLimit, price |-> p] : p \in {-1, 0}}
    \cup {[kind |-> "valid", limit |-> MaxLimit, price |-> p] : p \in {1, 2}}

RiskFailures(choice) ==
    Cardinality({t \in DOMAIN choice : choice[t].kind # "valid"})

\* The entry of analyst_signals["risk_management_agent"] for one ticker.
RiskEntry(c) ==
    CASE c.kind = "no_limit" -> [current_price |-> c.price]
      [] c.kind = "no_price" -> [remaining_position_limit |-> c.limit]
      [] OTHER -> [remaining_position_limit |-> c.limit, current_price |-> c.price]

risk_analysis(choice) ==
    [t \in {u \in Tickers : choice[u].kind # "absent"} |-> RiskEntry(choice[t])]

\* A node that runs as soon as one of the producers wired to it has returned.
FanInPartial == finished # {}

\* workflow.add_edge(analyst, "risk_management") for every producer, all of
\* them started from "start": the node runs once all of them have returned.
FanInComplete == finished = Producers

\* Runs once every producer wired before it has returned.
risk_management_agent ==
    /\ stage = "producers"
    /\ FanInComplete
    /\ \E choice \in [Tickers -> RiskChoices] :
        /\ faults + RiskFailures(choice) <= MaxFaults
        /\ faults' = faults + RiskFailures(choice)
        /\ NodeReturns("risk_management_agent", "risk_management_agent",
                       risk_analysis(choice))
    /\ stage' = "portfolio_management"
    /\ UNCHANGED <<finished, met, node_met, formatted_signals, llm_response, portfolio_decisions,
                   connected, broker_calls, execution_results, portfolio, result, schedVars>>

(***************************************************************************)
(* Portfolio management: limits per ticker, the decision generator, and    *)
(* the resolution of its answer.                                           *)
(***************************************************************************)
\* int(a / b), b > 0: truncation toward zero.
IntDiv(a, b) == IF a >= 0 THEN a \div b ELSE -((-a) \div b)

\* Some analyst's entry for the ticker carries an error.
AnalystError(signals, t) ==
    \E a \in DOMAIN signals :
        t \in DOMAIN signals[a] /\ "error" \in DOMAIN signals[a][t]

\* analyst_signals.get("risk_management_agent", {}).get(ticker, {})
RiskData(signals, t) ==
    Get(Get(signals, "risk_management_agent", EmptyDict), t, EmptyDict)

\* The error the first loop raises for a ticker, or "none".
TickerError(signals, t) ==
    LET risk_data == RiskData(signals, t) IN
    IF AnalystError(signals, t) THEN "Error from analyst"
    ELSE IF DOMAIN risk_data = {} THEN "Missing risk management data"
    ELSE IF "remaining_position_limit" \notin DOMAIN risk_data
        THEN "Missing position limit data"
    ELSE IF "current_price" \notin DOMAIN risk_data THEN "Missing current price data"
    ELSE IF risk_data.current_price = 0 THEN "Missing current price data"
    ELSE IF risk_data.current_price > 0 THEN "none"
    ELSE "Invalid current price (zero or negative)"

\* max_shares: an entry for each ticker the first loop passed without error.
max_shares(signals) ==
    [t \in {u \in Tickers : TickerError(signals, u) = "none"} |->
        IntDiv(RiskData(signals, t).remaining_position_limit,
               RiskData(signals, t).current_price)]

\* A signal as make_decision formats it: without error and reasoning.
FormatSignal(signal) ==
    [k \in DOMAIN signal \ {"error", "reasoning"} |-> signal[k]]

\* formatted_signals: a ticker that met an error carries no signal at all.
FormattedSignals(signals) ==
    [t \in Tickers |->
        IF TickerError(signals, t) # "none" THEN EmptyDict
        ELSE [a \in {b \in DOMAIN signals : t \in DOMAIN signals[b]} |->
                FormatSignal(signals[a][t])]]

\* PortfolioDecision(action="hold", quantity=0, confidence=0, reasoning=...)
HoldDecision(reason) ==
    [action |-> "hold", quantity |-> 0, confidence |-> 0, reasoning |-> <<reason>>]

\* The quantities the decision generator asks for: negative, zero, within
\* and over the limits.
Quantities == {-1, 0, 1, MaxRequested}

\* Entries PortfolioDecision cannot be built from: a required field is
\* missing, or the action is none of buy, sell, hold.
MalformedEntries ==
    {[action |-> "buy", confidence |-> 90, reasoning |-> <<"llm">>],
     [action |-> "short", quantity |-> 1, confidence |-> 90, reasoning |-> <<"llm">>]}

\* One decision as the decision generator words it: a buy of any of the
\* quantities, a sell (resolved and executed as a buy is) of a quantity within
\* or over the limits, a hold of nothing or of a quantity over the limits, or
\* a buy in capitals, or a malformed entry.
LLMEntries ==
    [action : {"buy"}, quantity : Quantities,
     confidence : {90}, reasoning : {<<"llm">>}]
    \cup [action : {"BUY"}, quantity : {1},
          confidence : {90}, reasoning : {<<"llm">>}]
    \cup [action : {"sell"}, quantity : {1, MaxRequested},
          confidence : {90}, reasoning : {<<"llm">>}]
    \cup [action : {"hold"}, quantity : {0, MaxRequested},
          confidence : {90}, reasoning : {<<"llm">>}]
    \cup MalformedEntries

\* The decision generator's answers: it raises, or returns decisions for any
\* part of the requested tickers and perhaps for one nobody requested, for
\* no more instruments than were requested.
LLMResponses ==
    {[kind |-> "raises", decisions |-> EmptyDict]}
    \cup UNION {
        {[kind |-> "answer", decisions |-> Merge(f, extra)] :
            f \in [K -> LLMEntries],
            extra \in {e \in {EmptyDict,
                              (Unrequested :> [action |-> "buy", quantity |-> 1,
                                               confidence |-> 90,
                                               reasoning |-> <<"llm">>])} :
                          Cardinality(K) + Cardinality(DOMAIN e) <= Len(tickers)}}
        : K \in SUBSET Tickers}

\* str(action).lower()
Lower(a) ==
    CASE a = "BUY" -> "buy" [] a = "SELL" -> "sell" [] a = "HOLD" -> "hold"
      [] OTHER -> a

RequiredFields == {"action", "quantity", "confidence", "reasoning"}

\* A validation that takes any action for valid.
ValidEntryAnyAction(e) == RequiredFields \subseteq DOMAIN e

\* PortfolioDecision's validation of one entry of the answer.
ValidEntry(e) ==
    /\ RequiredFields \subseteq DOMAIN e
    /\ Lower(e.action) \in {"buy", "sell", "hold"}

\* A parser that drops the entries it cannot build and keeps the others.
make_decision_lenient(response) ==
    LET kept == {t \in DOMAIN response.decisions : ValidEntry(response.decisions[t])}
    IN  IF response.kind = "answer" /\ kept # {}
        THEN [ok |-> TRUE,
              decisions |-> [t \in kept |->
                                [response.decisions[t] EXCEPT !.action = Lower(@)]]]
        ELSE [ok |-> FALSE, decisions |-> EmptyDict]

\* make_decision: the parsed decisions, or a failure (it raises) when the
\* generator raised, an entry is invalid, or the answer is empty.
make_decision(response) ==
    IF /\ response.kind = "answer"
       /\ DOMAIN response.decisions # {}
       /\ \A t \in DOMAIN response.decisions : ValidEntry(response.decisions[t])
    THEN [ok |-> TRUE,
          decisions |-> [t \in DOMAIN response.decisions |->
                            [response.decisions[t] EXCEPT !.action = Lower(@)]]]
    ELSE [ok |-> FALSE, decisions |-> EmptyDict]

ClampNote == "Quantity adjusted due to position limits."

\* A validation loop that lets every quantity through.
ResolveUnclamped(decision, max_allowed) == decision

\* The body of the validation loop for one decision.
Resolve(decision, max_allowed) ==
    IF decision.action # "hold" /\ decision.quantity > max_allowed
    THEN [decision EXCEPT !.quantity = max_allowed,
                          !.reasoning = Append(@, ClampNote)]
    ELSE decision

\* for ticker, decision in decisions.items(): the resolved decisions.
ResolveAll(decisions, limits) ==
    [t \in DOMAIN decisions |-> Resolve(decisions[t], Get(limits, t, 0))]

portfolio_management_agent ==
    /\ stage = "portfolio_management"
    /\ \E response \in LLMResponses :
        LET made == make_decision(response)
            resolved == ResolveAll(made.decisions, max_shares(analyst_signals))
        IN  /\ llm_response' = response
            /\ IF made.ok
               THEN /\ messages' = Append(messages,
                                    JsonMessage("portfolio_management", resolved))
                    /\ portfolio_decisions' = resolved
               ELSE /\ messages' = messages
                    /\ portfolio_decisions' =
                        [t \in Tickers |-> HoldDecision("Error in decision making")]
    /\ formatted_signals' = FormattedSignals(analyst_signals)
    /\ stage' = "execute"
    /\ UNCHANGED <<finished, met, node_met, analyst_signals, connected, broker_calls,
                   execution_results, portfolio, result, faults, schedVars>>

(***************************************************************************)
(* Execution stage: TradingExecutor.execute_portfolio_decisions.           *)
(***************************************************************************)
\* Whether the object place_order returns answers .get(...): OrderResponse
\* is a dataclass, not a dict.
OrderResponseHasGet == FALSE

\* The decision passes "action in [buy, sell] and quantity > 0".
Tradable(decision) ==
    /\ Lower(Get(decision, "action", "")) \in {"buy", "sell"}
    /\ Get(decision, "quantity", 0) > 0

\* The sequences that hold each element of S once: the orders in which a
\* dict with these keys may be walked.
Orderings(S) ==
    {seq \in [1..Cardinality(S) -> S] :
        \A i, j \in 1..Cardinality(S) : i # j => seq[i] # seq[j]}

\* The entry of execution_results for one submitted order.
OrderOutcome(decision, accepted) ==
    IF ~accepted THEN [status |-> "error", error |-> ExceptionText]
    ELSE IF OrderResponseHasGet
    THEN [status |-> "success", action |-> Lower(decision.action),
          quantity |-> decision.quantity, order_id |-> "id"]
    ELSE [status |-> "error",
          error |-> "'OrderResponse' object has no attribute 'get'"]

PlaceOrder(ticker, decision, accepted) ==
    [op |-> "place_order", symbol |-> ticker, quantity |-> decision.quantity,
     side |-> Lower(decision.action), accepted |-> accepted]

BrokerCall(op) ==
    [op |-> op, symbol |-> "", quantity |-> 0, side |-> "", accepted |-> TRUE]

\* A loop over the decisions that the first failing submission ends.
SubmittedUntilFailure(order, accepts) ==
    {i \in 1..Len(order) : \A k \in 1..(i - 1) : accepts[order[k]]}

\* The positions of the walk whose order is submitted: every tradable one.
Submitted(order, accepts) == 1..Len(order)

\* The broker calls of the loop, in the order walked.
Submissions(order, decisions, accepts) ==
    [i \in Submitted(order, accepts) |->
        PlaceOrder(order[i], decisions[order[i]], accepts[order[i]])]

\* What the venue reports at reconciliation.
VenueAccount == [cash |-> 99000, positions |-> ("AAPL" :> 1)]

\* A reconciliation that writes the cash before it reads the positions.
ReconciledCashFirst(old, recon) ==
    IF recon = "ok" THEN VenueAccount
    ELSE IF recon = "positions_raises" THEN [old EXCEPT !.cash = VenueAccount.cash]
    ELSE old

\* _update_portfolio_state: both reads, then both writes, or nothing.
Reconciled(old, recon) == IF recon = "ok" THEN VenueAccount ELSE old

\* A broker call that raised.
FailedCall(op) == [BrokerCall(op) EXCEPT !.accepted = FALSE]

\* The reads of _update_portfolio_state: the first that raises is the last.
ReconciliationCalls(recon) ==
    CASE recon = "account_raises" -> <<FailedCall("get_account_info")>>
      [] recon = "positions_raises" ->
            <<BrokerCall("get_account_info"), FailedCall("get_positions")>>
      [] OTHER -> <<BrokerCall("get_account_info"), BrokerCall("get_positions")>>

\* A stage that reconciles before it walks the decisions.
ExecutionCallsReconcilingFirst(submissions, reconciliation) ==
    <<BrokerCall("connect")>> \o reconciliation \o submissions

\* The broker calls of the stage: connect(), the loop over the decisions,
\* then _update_portfolio_state.
ExecutionCalls(submissions, reconciliation) ==
    <<BrokerCall("connect")>> \o submissions \o reconciliation

execute_portfolio_decisions ==
    /\ LET last_message == messages[Len(messages)]
           decisions == last_message.content
           tradable == {t \in DOMAIN decisions : Tradable(decisions[t])}
       IN  IF ~last_message.json \/ DOMAIN decisions = {}
           THEN UNCHANGED <<connected, broker_calls, execution_results,
                            portfolio, faults>>
           ELSE \E conn \in BOOLEAN, order \in Orderings(tradable),
                   accepts \in [tradable -> BOOLEAN],
                   recon \in {"ok", "account_raises", "positions_raises"} :
                LET injected ==
                        (IF conn THEN 0 ELSE 1)
                        + (IF conn THEN Cardinality({t \in tradable : ~accepts[t]})
                           ELSE 0)
                        + (IF conn /\ recon # "ok" THEN 1 ELSE 0)
                    done == Submitted(order, accepts)
                IN  \* without a trading client every broker call raises
                    /\ ~conn => recon = "account_raises"
                                /\ \A t \in tradable : ~accepts[t]
                    /\ faults + injected <= MaxFaults
                    /\ faults' = faults + injected
                    /\ connected' = conn
                    /\ broker_calls' =
                        ExecutionCalls(Submissions(order, decisions, accepts),
                                       ReconciliationCalls(recon))
                    /\ execution_results' =
                        [t \in {order[i] : i \in done} |->
                            OrderOutcome(decisions[t], accepts[t])]
                    /\ portfolio' = Reconciled(portfolio, recon)
    /\ UNCHANGED <<finished, met, node_met, messages, analyst_signals, formatted_signals,
                   llm_response, portfolio_decisions, schedVars>>

(***************************************************************************)
(* run_hedge_fund: construction of the executor, and the return value.     *)
(***************************************************************************)
\* parse_hedge_fund_response: None for text that is no JSON, else one entry
\* per key of the content, each field with its default.
parse_hedge_fund_response(message) ==
    IF ~message.json THEN [none |-> TRUE, decisions |-> EmptyDict]
    ELSE [none |-> FALSE,
          decisions |->
            [t \in DOMAIN message.content |->
                [action |-> Get(message.content[t], "action", "HOLD"),
                 quantity |-> Get(message.content[t], "quantity", 0),
                 confidence |-> Get(message.content[t], "confidence", 0),
                 reasoning |-> Get(message.content[t], "reasoning",
                                   <<"No reasoning provided">>)]]]

NotReturned == [status |-> "running", none |-> TRUE, decisions |-> EmptyDict]

\* TradingExecutor(paper=True): without credentials the broker's constructor
\* raises and run_hedge_fund returns its error result.
create_executor ==
    /\ stage = "created"
    /\  IF credentials
        THEN /\ stage' = "producers"
             /\ result' = result
        ELSE /\ stage' = "returned"
             /\ result' = [status |-> "error", none |-> TRUE, decisions |-> EmptyDict]
    /\ UNCHANGED <<finished, met, node_met, messages, analyst_signals, formatted_signals,
                   llm_response, portfolio_decisions, connected, broker_calls,
                   execution_results, portfolio, faults, schedVars>>

\* final_state = executor.execute_portfolio_decisions(final_state), then
\* return {"decisions": parse_hedge_fund_response(messages[-1].content), ...}
execute_and_return ==
    /\ stage = "execute"
    /\ execute_portfolio_decisions
    /\ LET parsed == parse_hedge_fund_response(messages[Len(messages)])
       IN  result' = [status |-> "ok", none |-> parsed.none,
                      decisions |-> parsed.decisions]
    /\ stage' = "returned"

\* The portfolio a run is handed: cash, and no share of any ticker.
InitialPortfolio == [cash |-> 100000, positions |-> [t \in Tickers |-> 0]]

InitPipeline ==
    /\ stage = "created"
    /\ finished = {}
    /\ met = EmptyDict
    /\ node_met = EmptyDict
    /\ messages = <<TextMessage("human")>>
    /\ analyst_signals = EmptyDict
    /\ formatted_signals = EmptyDict
    /\ llm_response = [kind |-> "none", decisions |-> EmptyDict]
    /\ portfolio_decisions = EmptyDict
    /\ connected = FALSE
    /\ broker_calls = <<>>
    /\ execution_results = EmptyDict
    /\ portfolio = InitialPortfolio
    /\ result = NotReturned
    /\ faults = 0

(***************************************************************************)
(* Autonomous scheduler: TradingScheduler over APScheduler's               *)
(* BackgroundScheduler (a thread pool; at most one running instance per    *)
(* job id).                                                                *)
(***************************************************************************)
\* RETRY_ATTEMPTS, MIN_TRADING_INTERVAL, MAX_TRADING_INTERVAL defaults.
retry_attempts == 3

min_interval == 5

max_interval == 240

\* Ticks fired in one behaviour.
MaxTicks == 3

JobIds == {"trading_cycle", "market_open"}

\* The intervals start() is called with: below, at, between, at, above.
Intervals == {2, min_interval - 1, min_interval, 60, max_interval, max_interval + 1}

NoStart == [made |-> FALSE, interval_minutes |-> 0, raised |-> FALSE]

Idle == [pc |-> "idle", attempts |-> 0, runs |-> <<>>, recorded |-> "none",
         event |-> "none"]

\* The New York wall clock: weekday() (Monday 0 .. Sunday 6) and the minute of
\* the day. The days taken are Thursday to Sunday (Monday to Wednesday go as
\* Thursday does), the minutes those around the window 9:30 - 16:00: 9:00,
\* 9:30, 16:00 and 16:01.
Days == {3, 4, 5, 6}

Minutes == {9 * 60, 9 * 60 + 30, 16 * 60, 16 * 60 + 1}

\* The clock change of the week: none, or the one made at 2:00 in the night
\* to its Sunday, when daylight saving time ends or begins.
Changes == {"none", "dst_ends", "dst_begins"}

\* The scheduler's clock: those days and minutes in a week without a clock
\* change, and the Saturday morning before daylight saving time ends.
Times ==
    [dow : Days, minute : Minutes, change : {"none"}]
    \cup [dow : {5}, minute : {9 * 60}, change : {"dst_ends"}]

\* The minutes of a day taken for the whole week: midnight, around 9:30,
\* noon, around 16:00 and the end of its hour, the last minute.
WeekMinutes == {0, 9 * 60, 9 * 60 + 29, 9 * 60 + 30, 12 * 60, 16 * 60,
                16 * 60 + 1, 16 * 60 + 59, 17 * 60, 23 * 60 + 59}

\* Every day of a week at these minutes, in a week of each clock change.
WeekTimes == [dow : 0..6, minute : WeekMinutes, change : Changes]

\* The utcoffset(), in minutes, of datetime.now(pytz.timezone(
\* "America/New_York")) on day `day` of the week (7: the Monday after) at
\* `minute`: the tzinfo pytz attaches is that of the period the time lies in.
utcoffset(change, day, minute) ==
    LET changed == day > 6 \/ (day = 6 /\ minute >= 2 * 60) IN
    CASE change = "dst_ends" -> IF changed THEN -300 ELSE -240
      [] change = "dst_begins" -> IF changed THEN -240 ELSE -300
      [] OTHER -> -300

\* is_market_open: a weekday, and 9:30 <= now <= 16:00.
is_market_open(t) ==
    /\ ~(t.dow > 4)
    /\ 9 * 60 + 30 <= t.minute /\ t.minute <= 16 * 60

\* while next_open.weekday() > 4: next_open += timedelta(days=1)
RECURSIVE SkipWeekend(_)
SkipWeekend(open) ==
    IF open.dow > 4
    THEN SkipWeekend([open EXCEPT !.days_ahead = @ + 1, !.dow = (@ + 1) % 7])
    ELSE open

\* get_next_market_open: tomorrow when the hour is 16 or later, at 9:30, moved
\* past a weekend. days_ahead counts the days from today. Adding a timedelta
\* and replace() keep the tzinfo of `now`: the result carries the utcoffset
\* in force at `t`.
get_next_market_open(t) ==
    LET ahead == IF t.minute \div 60 >= 16 THEN 1 ELSE 0
    IN  SkipWeekend([days_ahead |-> ahead, dow |-> (t.dow + ahead) % 7,
                     minute |-> 9 * 60 + 30,
                     utcoffset |-> utcoffset(t.change, t.dow, t.minute)])

NoWindow == [days_ahead |-> 0, dow |-> 0, minute |-> 0, utcoffset |-> 0]

\* A validation that takes the bounds themselves for invalid.
IntervalValidStrict(interval_minutes) ==
    min_interval < interval_minutes /\ interval_minutes < max_interval

\* min_interval <= interval_minutes <= max_interval
IntervalValid(interval_minutes) ==
    min_interval <= interval_minutes /\ interval_minutes <= max_interval

\* start(): validate the interval, add the interval job and, gated, the
\* market-open job, then start the scheduler.
start ==
    /\ ~start_call.made
    /\ \E interval_minutes \in Intervals :
        IF ~IntervalValid(interval_minutes)
        THEN /\ start_call' = [made |-> TRUE, interval_minutes |-> interval_minutes,
                               raised |-> TRUE]
             /\ UNCHANGED <<jobs, scheduler_state, last_status>>
        ELSE /\ start_call' = [made |-> TRUE, interval_minutes |-> interval_minutes,
                               raised |-> FALSE]
             /\ jobs' = jobs \cup {"trading_cycle"}
                        \cup (IF trading_hours_only THEN {"market_open"} ELSE {})
             /\ scheduler_state' = "running"
             /\ last_status' = "Started"
    /\ UNCHANGED <<credentials, trading_hours_only, instance, market_open, now,
                   next_window, ticks, pipeVars>>

\* A shutdown that takes the running ticks down with it.
stop_killing ==
    /\ scheduler_state = "running"
    /\ scheduler_state' = "stopping"
    /\ instance' = [j \in JobIds |-> [instance[j] EXCEPT !.pc = "idle"]]
    /\ UNCHANGED <<credentials, trading_hours_only, jobs, start_call, market_open,
                   now, next_window, last_status, ticks, pipeVars>>

\* stop(): scheduler.shutdown() with its default wait=True. No job is handed
\* to the pool from here on; the call then waits for the running ones.
stop ==
    /\ scheduler_state = "running"
    /\ scheduler_state' = "stopping"
    /\ UNCHANGED <<credentials, trading_hours_only, jobs, start_call, instance,
                   market_open, now, next_window, last_status, ticks, pipeVars>>

\* shutdown() returns once no job of the pool is running; stop() records
\* "Stopped" and returns.
stop_returns ==
    /\ scheduler_state = "stopping"
    /\ \A j \in JobIds : instance[j].pc = "idle"
    /\ scheduler_state' = "stopped"
    /\ last_status' = "Stopped"
    /\ UNCHANGED <<credentials, trading_hours_only, jobs, start_call, instance,
                   market_open, now, next_window, ticks, pipeVars>>

\* Time passes: the market opens or closes with the clock.
clock ==
    /\ \E t \in Times \ {now} :
        /\ now' = t
        /\ market_open' = is_market_open(t)
    /\ UNCHANGED <<credentials, trading_hours_only, scheduler_state, jobs, start_call,
                   instance, next_window, last_status, ticks, pipeVars>>

\* A gate that lets every tick through.
can_trade_now_ungated == TRUE

\* _can_trade_now
can_trade_now == IF ~trading_hours_only THEN TRUE ELSE market_open

\* A job comes due and the scheduler hands _execute_trading_cycle to a pool
\* thread, unless an instance of that job is still running. The body starts:
\* with the market closed it records the next window and returns.
job_due(j) ==
    /\ scheduler_state = "running"
    /\ j \in jobs
    /\ instance[j].pc = "idle"
    /\ ticks < MaxTicks
    /\ ticks' = ticks + 1
    /\ IF ~can_trade_now
       THEN /\ instance' = [instance EXCEPT ![j] =
                    [Idle EXCEPT !.recorded = "Market closed", !.event = "executed"]]
            /\ next_window' = get_next_market_open(now)
            /\ last_status' = "Trading cycle completed successfully"
       ELSE /\ instance' = [instance EXCEPT ![j] = [Idle EXCEPT !.pc = "running"]]
            /\ UNCHANGED <<last_status, next_window>>
    /\ UNCHANGED <<credentials, trading_hours_only, scheduler_state, jobs, start_call,
                   market_open, now, pipeVars>>

\* The results run_hedge_fund hands to run_trading_cycle: its decisions, or
\* its error result after an exception.
RunResults == {"ok", "error"}

\* run_trading_cycle: every exception is caught and turned into an error
\* dict, so the call returns a non-empty dict and never raises.
run_trading_cycle(run) ==
    [raised |-> FALSE, truthy |-> TRUE, error |-> (run = "error")]

\* One pass of the while loop of _execute_trading_cycle, and, when the loop
\* ends, the job event the listener records.
Attempt(tick, run) ==
    LET r == run_trading_cycle(run)
        ran == [tick EXCEPT !.runs = Append(@, run)]
    IN  IF ~r.raised
        THEN \* if result: status "Trading cycle completed"; break
             [ran EXCEPT !.pc = "idle",
                         !.recorded = IF r.truthy THEN "Trading cycle completed"
                                      ELSE @,
                         !.event = "executed"]
        ELSE IF tick.attempts + 1 >= retry_attempts
        THEN [ran EXCEPT !.pc = "idle", !.attempts = @ + 1,
                         !.recorded = "Failed after attempts",
                         !.event = "executed"]
        ELSE [ran EXCEPT !.attempts = @ + 1, !.recorded = "Retrying"]

run_attempt(j) ==
    /\ instance[j].pc = "running"
    /\ instance[j].attempts < retry_attempts
    /\ \E run \in RunResults :
        \* without credentials TradingExecutor() raises in every run
        /\ ~credentials => run = "error"
        /\ instance' = [instance EXCEPT ![j] = Attempt(instance[j], run)]
        /\ last_status' = IF instance'[j].pc = "idle"
                          THEN "Trading cycle completed successfully"
                          ELSE instance'[j].recorded
    /\ UNCHANGED <<credentials, trading_hours_only, scheduler_state, jobs, start_call,
                   market_open, now, next_window, ticks, pipeVars>>

InitScheduler ==
    /\ trading_hours_only \in BOOLEAN
    /\ scheduler_state = "stopped"
    /\ jobs = {}
    /\ start_call = NoStart
    /\ instance = [j \in JobIds |-> Idle]
    /\ now \in Times
    /\ market_open = is_market_open(now)
    /\ next_window = NoWindow
    /\ credentials \in BOOLEAN
    /\ last_status = "none"
    /\ ticks = 0

\* A pipeline run starts inside a tick that passed the market-hours gate, here
\* on a Thursday at 9:30, with or without the broker's credentials.
Init ==
    /\ InitPipeline
    /\ InitScheduler
    /\ trading_hours_only
    /\ now = [dow |-> 3, minute |-> 9 * 60 + 30, change |-> "none"]

Next ==
    \/ create_executor
    \/ fundamentals_agent
    \/ sentiment_agent
    \/ risk_management_agent
    \/ portfolio_management_agent
    \/ execute_and_return

\* One pipeline run, the scheduler left untouched.
Spec == Init /\ [][Next]_vars

NextScheduler ==
    \/ start
    \/ stop
    \/ stop_returns
    \/ clock
    \/ \E j \in JobIds : job_due(j)
    \/ \E j \in JobIds : run_attempt(j)

\* A scheduler constructed for the tickers, no pipeline run under way.
InitSchedulerSpec == InitPipeline /\ InitScheduler

\* The scheduler, each run of the pipeline taken by its result.
SchedulerSpec == InitSchedulerSpec /\ [][NextScheduler]_vars

\* next_open = get_next_market_open(), called at the time `now`.
next_market_open ==
    /\ next_window' = get_next_market_open(now)
    /\ UNCHANGED <<credentials, trading_hours_only, scheduler_state, jobs, start_call,
                   instance, market_open, now, last_status, ticks, pipeVars>>

\* The market-hours functions at any time of any week.
InitMarketHours ==
    /\ InitPipeline
    /\ trading_hours_only = TRUE
    /\ scheduler_state = "stopped"
    /\ jobs = {}
    /\ start_call = NoStart
    /\ instance = [j \in JobIds |-> Idle]
    /\ now \in WeekTimes
    /\ market_open = is_market_open(now)
    /\ next_window = NoWindow
    /\ credentials = TRUE
    /\ last_status = "none"
    /\ ticks = 0

NextMarketHours == next_market_open

MarketHoursSpec == InitMarketHours /\ [][NextMarketHours]_vars

(***************************************************************************)
(* Claims about the pipeline run.                                          *)
(***************************************************************************)
Returned == stage = "returned" /\ result.status = "ok"

DecisionsResolved == stage \in {"execute", "returned"} /\ llm_response.kind # "none"

\* The decision generator answered and make_decision accepted the answer.
AnswerAccepted == DecisionsResolved /\ make_decision(llm_response).ok

\* maxQuantity of an instrument: its max_shares, 0 without usable risk data.
MaxQuantity(t) == Get(max_shares(analyst_signals), t, 0)

Min(a, b) == IF a <= b THEN a ELSE b

\* C1: a run that returns its result holds exactly one decision for each
\* requested instrument and for no other instrument.
C1_DecisionForEveryInstrument ==
    Returned => ~result.none /\ DOMAIN result.decisions = Tickers

\* C2: every resolved decision has 0 <= quantity <= maxQuantity of its
\* instrument, whatever the decision generator returned.
C2_QuantityWithinEnvelope ==
    AnswerAccepted =>
        \A t \in DOMAIN portfolio_decisions :
            /\ 0 <= portfolio_decisions[t].quantity
            /\ portfolio_decisions[t].quantity <= MaxQuantity(t)

\* C3: after resolution every hold decision has quantity 0.
C3_HoldHasZeroQuantity ==
    DecisionsResolved =>
        \A t \in DOMAIN portfolio_decisions :
            portfolio_decisions[t].action = "hold"
                => portfolio_decisions[t].quantity = 0

\* C4: the resolved quantity is min(requested, maxQuantity), and the clamp
\* note is appended to the rationale exactly when the quantity was reduced.
C4_QuantityIsMinWithNote ==
    AnswerAccepted =>
        \A t \in DOMAIN portfolio_decisions :
            LET requested == llm_response.decisions[t]
                resolved == portfolio_decisions[t]
            IN  /\ resolved.quantity = Min(requested.quantity, MaxQuantity(t))
                /\ resolved.reasoning =
                    IF resolved.quantity < requested.quantity
                    THEN Append(requested.reasoning, ClampNote)
                    ELSE requested.reasoning

\* C5: a producer that has returned, its node having met no failure outside
\* its loop over the tickers, holds an entry for every requested
\* ticker: an error entry (neutral, confidence 0) exactly for the tickers it
\* failed on, the scored signal for every other, whatever it and the other
\* producers met for the other tickers.
C5_ProducerFailureIsolated ==
    \A p \in {q \in finished : node_met[q] = "ok"} :
        /\ p \in DOMAIN analyst_signals
        /\ DOMAIN analyst_signals[p] = Tickers
        /\ \A t \in Tickers :
            LET entry == analyst_signals[p][t] IN
            IF met[p][t] = "ok"
            THEN "error" \notin DOMAIN entry /\ entry.signal # "neutral"
            ELSE /\ "error" \in DOMAIN entry
                 /\ entry.signal = "neutral"
                 /\ entry.confidence = 0

\* C5 witness: fundamentals failed for AAPL, and still scored MSFT, and
\* sentiment scored AAPL.
C5_Witness ==
    /\ finished = Producers
    /\ \A p \in Producers : node_met[p] = "ok"
    /\ met["fundamentals_agent"]["AAPL"] = "fetch_raises"
    /\ "error" \in DOMAIN analyst_signals["fundamentals_agent"]["AAPL"]
    /\ "error" \notin DOMAIN analyst_signals["fundamentals_agent"]["MSFT"]
    /\ "error" \notin DOMAIN analyst_signals["sentiment_agent"]["AAPL"]

PlaceOrderCalls(t) ==
    {i \in DOMAIN broker_calls :
        broker_calls[i].op = "place_order" /\ broker_calls[i].symbol = t}

\* The execution stage got as far as its loop over the decisions.
LoopRan == stage = "returned" /\ broker_calls # <<>>

\* C6: once the execution stage walks the decisions, every buy or sell
\* decision with quantity > 0 gets exactly one order submission, whichever
\* other submissions failed, and a failed submission is recorded as an error
\* outcome of its instrument with the error message.
C6_SubmissionFailureIsolated ==
    LoopRan =>
        LET decisions == messages[Len(messages)].content IN
        \A t \in DOMAIN decisions :
            Tradable(decisions[t]) =>
                /\ Cardinality(PlaceOrderCalls(t)) = 1
                /\ \A i \in PlaceOrderCalls(t) :
                    ~broker_calls[i].accepted =>
                        /\ t \in DOMAIN execution_results
                        /\ execution_results[t].status = "error"
                        /\ execution_results[t].error = ExceptionText

\* C6 witness: the first submission of the walk raised and the next
\* instrument's order was still submitted.
C6_Witness ==
    /\ LoopRan
    /\ connected
    /\ \E i, j \in DOMAIN broker_calls :
        /\ i < j
        /\ broker_calls[i].op = "place_order" /\ ~broker_calls[i].accepted
        /\ broker_calls[j].op = "place_order"
        /\ broker_calls[i].symbol # broker_calls[j].symbol
        /\ execution_results[broker_calls[i].symbol].status = "error"

(***************************************************************************)
(* Claims about the scheduler.                                             *)
(***************************************************************************)
\* The job's last tick passed the gate, ran the pipeline and has ended.
TickEnded(j) == instance[j].pc = "idle" /\ instance[j].runs # <<>>

AllRunsFailed(j) ==
    \A i \in DOMAIN instance[j].runs : instance[j].runs[i] = "error"

\* C7: a failed run is attempted again until retry_attempts attempts are
\* made and never more, no attempt follows a successful run, and a tick
\* whose last attempt succeeded is recorded as completed.
C7_FailedRunIsRetried ==
    \A j \in JobIds :
        TickEnded(j) =>
            LET runs == instance[j].runs IN
            /\ Len(runs) <= retry_attempts
            /\ \A i \in 1..(Len(runs) - 1) : runs[i] = "error"
            /\ runs[Len(runs)] = "error" => Len(runs) = retry_attempts
            /\ runs[Len(runs)] = "ok"
                => instance[j].recorded = "Trading cycle completed"

\* C8: a tick all of whose run attempts failed is recorded as failed, never
\* as completed, and its job stays scheduled.
C8_FailedTickRecordedFailed ==
    \A j \in JobIds :
        TickEnded(j) /\ AllRunsFailed(j) =>
            /\ instance[j].recorded = "Failed after attempts"
            /\ last_status # "Trading cycle completed successfully"
            /\ j \in jobs

\* C9: start raises exactly when the interval lies outside
\* [min_interval, max_interval]; when it raises no job is added, the
\* scheduler is not started and no tick ever executes.
C9_InvalidIntervalRejected ==
    /\ start_call.made =>
        (start_call.raised <=>
            ~(5 <= start_call.interval_minutes /\ start_call.interval_minutes <= 240))
    /\ start_call.raised =>
        /\ jobs = {}
        /\ scheduler_state = "stopped"
        /\ ticks = 0
        /\ \A j \in JobIds : instance[j] = Idle

\* C9 witness: start(2) raised with min_interval 5.
C9_Witness ==
    /\ start_call.made
    /\ start_call.interval_minutes = 2
    /\ start_call.raised
    /\ jobs = {}

\* C10: at most one tick body runs at any time.
C10_TicksNeverOverlap ==
    Cardinality({j \in JobIds : instance[j].pc = "running"}) <= 1

(***************************************************************************)
(* Further claims about the pipeline run.                                  *)
(***************************************************************************)
\* The risk data of the ticker passes every check of the first loop.
RiskUsable(t) ==
    LET risk_data == RiskData(analyst_signals, t) IN
    /\ "remaining_position_limit" \in DOMAIN risk_data
    /\ "current_price" \in DOMAIN risk_data
    /\ risk_data.current_price > 0

\* The producers whose recorded entry for the ticker carries no error.
Survivors(t) ==
    {p \in Producers :
        /\ p \in DOMAIN analyst_signals
        /\ t \in DOMAIN analyst_signals[p]
        /\ "error" \notin DOMAIN analyst_signals[p][t]}

\* C11: for every ticker with usable risk data the decision generator is
\* sent exactly the signals of the producers that succeeded for it, none of
\* them tagged with an error, and a ticker no producer succeeded for is
\* decided hold.
C11_GeneratorSeesSurvivingSignals ==
    DecisionsResolved =>
        \A t \in Tickers :
            RiskUsable(t) =>
                /\ t \in DOMAIN formatted_signals
                /\ DOMAIN formatted_signals[t] \cap Producers = Survivors(t)
                /\ \A p \in DOMAIN formatted_signals[t] :
                    "error" \notin DOMAIN formatted_signals[t][p]
                /\ (Survivors(t) = {} /\ t \in DOMAIN portfolio_decisions)
                    => portfolio_decisions[t].action = "hold"

\* C15: once the execution stage walks the resolved decisions it records one
\* outcome for every decided instrument, "skipped" for a decision that is not
\* a buy or sell of a positive quantity, and submits no order for such a
\* decision.
C15_OneOutcomePerDecision ==
    (LoopRan /\ AnswerAccepted) =>
        LET decisions == messages[Len(messages)].content IN
        \A t \in DOMAIN decisions :
            /\ t \in DOMAIN execution_results
            /\ ~Tradable(decisions[t]) =>
                /\ execution_results[t].status = "skipped"
                /\ PlaceOrderCalls(t) = {}

\* C16: once run_hedge_fund has returned, the executor is not connected.
C16_DisconnectedAfterRun ==
    stage = "returned" => ~connected

\* The producers have all returned and the run has moved past them.
PastFanIn == stage \in {"portfolio_management", "execute"} \/ Returned

\* C17: after fan-in analyst_signals holds, for every configured producer,
\* one entry per requested ticker, an error entry (neutral, confidence 0)
\* where the producer had no usable signal.
C17_OneEntryPerProducerPerTicker ==
    PastFanIn =>
        \A p \in Producers :
            /\ p \in DOMAIN analyst_signals
            /\ DOMAIN analyst_signals[p] = Tickers
            /\ \A t \in Tickers :
                met[p][t] # "ok" =>
                    /\ "error" \in DOMAIN analyst_signals[p][t]
                    /\ analyst_signals[p][t].signal = "neutral"
                    /\ analyst_signals[p][t].confidence = 0

RiskEvaluated == "risk_management_agent" \in DOMAIN analyst_signals

MessagesNamed(name) == {i \in DOMAIN messages : messages[i].name = name}

\* C18: the stages run in the order producers, risk evaluation, decision
\* resolution, execution, each at most once, and risk evaluation runs only
\* after every configured producer has returned.
C18_StagesInOrder ==
    /\ RiskEvaluated => finished = Producers
    /\ stage = "created" => finished = {}
    /\ stage \in {"created", "producers"} =>
        ~RiskEvaluated /\ llm_response.kind = "none" /\ broker_calls = <<>>
    /\ stage = "portfolio_management" =>
        RiskEvaluated /\ llm_response.kind = "none" /\ broker_calls = <<>>
    /\ stage = "execute" =>
        RiskEvaluated /\ llm_response.kind # "none" /\ broker_calls = <<>>
    /\ Returned => RiskEvaluated /\ llm_response.kind # "none"
    /\ stage # "returned" => result = NotReturned
    /\ \A name \in {"fundamentals", "sentiment", "risk_management_agent",
                     "portfolio_management"} :
        Cardinality(MessagesNamed(name)) <= 1

\* C18 witness: a run that went through every stage and submitted an order.
C18_Witness ==
    /\ Returned
    /\ finished = Producers
    /\ RiskEvaluated
    /\ llm_response.kind = "answer"
    /\ \E i \in DOMAIN broker_calls : broker_calls[i].op = "place_order"

\* C19: an entry of the answer that PortfolioDecision cannot be built from
\* becomes a hold of quantity 0 for its instrument, and every other entry of
\* the same answer keeps its action and confidence.
C19_MalformedEntryDegradesAlone ==
    (DecisionsResolved /\ llm_response.kind = "answer") =>
        \A t \in DOMAIN llm_response.decisions :
            LET e == llm_response.decisions[t] IN
            /\ t \in DOMAIN portfolio_decisions
            /\ IF ValidEntry(e)
               THEN /\ portfolio_decisions[t].action = Lower(e.action)
                    /\ portfolio_decisions[t].confidence = e.confidence
               ELSE /\ portfolio_decisions[t].action = "hold"
                    /\ portfolio_decisions[t].quantity = 0

\* C20: when the decision generator fails (every ticker having usable risk
\* data), the run returns, for every requested ticker, a hold of quantity 0
\* and confidence 0 whose rationale is the error.
C20_GeneratorFailureYieldsHold ==
    (/\ stage = "returned"
     /\ DecisionsResolved
     /\ ~make_decision(llm_response).ok
     /\ \A t \in Tickers : RiskUsable(t)) =>
        /\ result.status = "ok"
        /\ ~result.none
        /\ DOMAIN result.decisions = Tickers
        /\ \A t \in Tickers :
            /\ Lower(result.decisions[t].action) = "hold"
            /\ result.decisions[t].quantity = 0
            /\ result.decisions[t].confidence = 0
            /\ result.decisions[t].reasoning = <<"Error in decision making">>

(***************************************************************************)
(* Further claims about the scheduler.                                     *)
(***************************************************************************)
\* The window is a weekday's 9:30 after `t`, told in the utcoffset in force
\* in New York on that day, and no weekday's 9:30 lies between `t` and it.
NextEligible(t, open) ==
    /\ open.utcoffset = utcoffset(t.change, t.dow + open.days_ahead, open.minute)
    /\ open.dow = (t.dow + open.days_ahead) % 7
    /\ ~(open.dow > 4)
    /\ open.minute = 9 * 60 + 30
    /\ open.days_ahead > 0 \/ t.minute < open.minute
    /\ \A d \in 0..(open.days_ahead - 1) :
        (t.dow + d) % 7 > 4 \/ (d = 0 /\ ~(t.minute < open.minute))

\* C12: a tick that fires with gating enabled and the market closed makes no
\* run attempt, records the next eligible window and ends without an error;
\* any other tick goes on to run the pipeline.
C12_ClosedMarketSkipsTick ==
    [][ticks' = ticks + 1 =>
        IF trading_hours_only /\ ~is_market_open(now)
        THEN /\ \A j \in JobIds :
                /\ instance'[j].pc = instance[j].pc
                /\ instance'[j] # instance[j] => instance'[j].runs = <<>>
             /\ \E j \in JobIds :
                /\ instance'[j].recorded = "Market closed"
                /\ instance'[j].event = "executed"
                /\ instance'[j].runs = <<>>
             /\ NextEligible(now, next_window')
        ELSE \E j \in JobIds :
                instance[j].pc = "idle" /\ instance'[j].pc = "running"]_vars

\* C12 witness: a tick was gated off on a weekend and recorded a window days
\* ahead.
C12_Witness ==
    /\ ticks > 0
    /\ trading_hours_only
    /\ \E j \in JobIds :
        instance[j].recorded = "Market closed" /\ instance[j].runs = <<>>
    /\ next_window.days_ahead > 1

\* C13: stop() leaves every tick in flight as it is, a tick in flight ends
\* only by its own attempts, stop() returns once none is running, and no
\* tick starts once stop() was called.
C13_StopIsCooperative ==
    [][/\ (scheduler_state = "running" /\ scheduler_state' = "stopping")
            => instance' = instance
       /\ scheduler_state = "stopping" =>
            /\ ticks' = ticks
            /\ \A j \in JobIds :
                /\ instance[j].pc = "idle" => instance'[j] = instance[j]
                /\ instance[j].pc = "running" =>
                    \/ instance'[j] = instance[j]
                    \/ Len(instance'[j].runs) = Len(instance[j].runs) + 1
       /\ (scheduler_state = "stopping" /\ scheduler_state' = "stopped")
            => \A j \in JobIds : instance[j].pc = "idle"
       /\ (scheduler_state = "stopped" /\ start_call.made)
            => (ticks' = ticks /\ instance' = instance)]_vars

\* C13 witness: stop() was called with a tick in flight, which is still
\* running.
C13_Witness ==
    /\ scheduler_state = "stopping"
    /\ \E j \in JobIds : instance[j].pc = "running"

\* C14: without broker credentials start() raises, and no tick ever makes a
\* pipeline run.
C14_MissingCredentialsFatalAtStart ==
    ~credentials =>
        /\ start_call.made => start_call.raised
        /\ \A j \in JobIds : instance[j].runs = <<>>

(***************************************************************************)
(* Claims about risk errors, the portfolio, and the orders submitted.      *)
(***************************************************************************)
\* C21: a requested ticker whose risk data is missing, or lacks the limit or
\* the price, or has a price of zero or below, is decided hold with quantity
\* 0 and the risk error as rationale, whatever the decision generator
\* answered for it.
C21_RiskErrorYieldsHold ==
    AnswerAccepted =>
        \A t \in Tickers :
            (~AnalystError(analyst_signals, t) /\ ~RiskUsable(t)) =>
                /\ t \in DOMAIN portfolio_decisions
                /\ portfolio_decisions[t].action = "hold"
                /\ portfolio_decisions[t].quantity = 0
                /\ portfolio_decisions[t].reasoning = <<TickerError(analyst_signals, t)>>

\* The positions of the broker calls of one operation.
CallsOf(op) == {i \in DOMAIN broker_calls : broker_calls[i].op = op}

\* C22: the portfolio is as the run was handed it until the execution stage
\* has returned, and where it differs the decisions had been resolved, an
\* order had been submitted for every tradable decision of the last message,
\* and both reconciliation reads came after every submission.
C22_PortfolioWrittenOnlyByReconciliation ==
    /\ stage # "returned" => portfolio = InitialPortfolio
    /\ portfolio # InitialPortfolio =>
        /\ DecisionsResolved
        /\ \A t \in DOMAIN messages[Len(messages)].content :
            Tradable(messages[Len(messages)].content[t]) => PlaceOrderCalls(t) # {}
        /\ CallsOf("get_account_info") # {}
        /\ CallsOf("get_positions") # {}
        /\ \A i \in CallsOf("get_account_info") \cup CallsOf("get_positions") :
            \A k \in CallsOf("place_order") : k < i

\* C22 witness: the portfolio was rewritten in a run that submitted an order.
C22_Witness ==
    /\ stage = "returned"
    /\ portfolio # InitialPortfolio
    /\ CallsOf("place_order") # {}

\* C23: once the execution stage has walked the decisions it reads the
\* account exactly once, after every submission; it records an outcome for
\* every submission whether or not a read raises; and the portfolio is what
\* the venue reports when both reads return, and what it was, cash and
\* positions alike, when one of them raises.
C23_ReconciliationOnceAllOrNothing ==
    LoopRan =>
        /\ Cardinality(CallsOf("get_account_info")) = 1
        /\ Cardinality(CallsOf("get_positions")) <= 1
        /\ \A i \in CallsOf("get_account_info") :
            \A k \in CallsOf("place_order") : k < i
        /\ DOMAIN execution_results = {t \in Tickers \cup {Unrequested} :
                                            PlaceOrderCalls(t) # {}}
        /\ portfolio =
            IF \E i \in CallsOf("get_account_info") \cup CallsOf("get_positions") :
                    ~broker_calls[i].accepted
            THEN InitialPortfolio
            ELSE VenueAccount

\* C23 witness: get_account_info returned, get_positions raised, and an
\* outcome was recorded for a submitted order.
C23_Witness ==
    /\ LoopRan
    /\ \E i \in CallsOf("get_positions") : ~broker_calls[i].accepted
    /\ execution_results # EmptyDict

C27_OrdersWithinEnvelope ==
    \A i \in CallsOf("place_order") :
        LET call == broker_calls[i] IN
        /\ call.symbol \in Tickers
        /\ RiskUsable(call.symbol)
        /\ call.symbol \in DOMAIN max_shares(analyst_signals)
        /\ call.side \in {"buy", "sell"}
        /\ 0 < call.quantity
        /\ call.quantity <= max_shares(analyst_signals)[call.symbol]

\* C27 witness: an order was submitted for fewer shares than the decision
\* generator asked for, in a run whose answer named an unrequested ticker.
C27_Witness ==
    /\ Unrequested \in DOMAIN llm_response.decisions
    /\ \E i \in CallsOf("place_order") :
        llm_response.decisions[broker_calls[i].symbol].quantity
            > broker_calls[i].quantity

\* C28: the outcome recorded for a submitted order is a success carrying
\* the order id exactly when the broker accepted the order.
C28_AcceptedOrderRecordedSuccess ==
    LoopRan =>
        \A i \in CallsOf("place_order") :
            LET t == broker_calls[i].symbol IN
            /\ t \in DOMAIN execution_results
            /\ broker_calls[i].accepted <=> execution_results[t].status = "success"
            /\ broker_calls[i].accepted => "order_id" \in DOMAIN execution_results[t]

\* C29: a run whose executor did not get connected made no order
\* submission and no reconciliation read.
C29_NoBrokerCallWhileDisconnected ==
    (stage = "returned" /\ ~connected) =>
        /\ CallsOf("place_order") = {}
        /\ CallsOf("get_account_info") = {}
        /\ CallsOf("get_positions") = {}

\* The decision generator raised, or its answer is empty or holds an entry
\* PortfolioDecision cannot be built from.
GeneratorFailed ==
    /\ DecisionsResolved
    /\ \/ llm_response.kind = "raises"
       \/ DOMAIN llm_response.decisions = {}
       \/ \E t \in DOMAIN llm_response.decisions : ~ValidEntry(llm_response.decisions[t])

NewYorkTime(t, open) ==
    [dow |-> open.dow,
     minute |-> open.minute
                + utcoffset(t.change, t.dow + open.days_ahead, open.minute)
                - open.utcoffset]

\* C26: whenever the market is closed at the time `now`, the time
\* get_next_market_open returns is later than `now`, is 9:30 in New York on a
\* weekday, and is a time at which is_market_open is true.
C26_NextOpenIsOpenAndLater ==
    (next_window # NoWindow /\ ~is_market_open(now)) =>
        LET at == NewYorkTime(now, next_window) IN
        /\ next_window.days_ahead * 24 * 60 + at.minute > now.minute
        /\ ~(at.dow > 4)
        /\ at.minute = 9 * 60 + 30
        /\ is_market_open(at)

====
